---- MODULE Spec2Model ----
(***************************************************************************)
(* Model of mizer's namespace sandbox, rust/src/container.rs:              *)
(* with_unshared_user_and_mount clones a child into new user and mount     *)
(* namespaces, maps the invoking user to root in it, releases the child    *)
(* over an ipc-channel rendezvous and waits for it.                         *)
(*                                                                         *)
(* Two processes are modelled: the parent (the body of                     *)
(* with_unshared_user_and_mount, position ppc) and the child (the closure  *)
(* handed to clone, position cpc).  Every fallible call of the code        *)
(* (anything followed by `?`) has an outcome chosen by the environment.    *)
(***************************************************************************)
EXTENDS Naturals, Integers, Sequences, FiniteSets, TLC

\* Signals the child may be killed by while it runs the work closure are
\* numbered 1..MaxSignal.
MaxSignal == 2

Signals == 1..MaxSignal

VARIABLES
    ppc,          \* parent: the statement of with_unshared_user_and_mount it is at
    cpc,          \* child: the statement of the clone callback it is at
    result,       \* what with_unshared_user_and_mount returned ("none" before)
    server,       \* parent_server: "none", "listening", "consumed", "dropped"
    conn,         \* tx0, the child's connection to parent_server
    serverQ,      \* what the child sent over tx0 and the server has not accepted
    tx1,          \* who owns tx1, the sender of the child's private channel
    rx1Live,      \* rx1, the child's receiver, exists
    rx1Q,         \* Ready messages sent over tx1 and not yet received
    written,      \* the /proc/<pid> files written so far, in order
    recvRes,      \* what recv_ready returned in the child
    workRes,      \* what child_fn returned in the child
    childStatus,  \* the terminal status of the child process
    waitRes,      \* what waitpid returned to the parent
    printed,      \* the line the parent printed after waitpid
    childLine,    \* the error the child printed in "mzr child error: ..."
    failures,     \* the fallible steps that failed so far
    sent,         \* number of Ready messages the parent sent
    received,     \* number of Ready messages the child received
    waitCalls,    \* number of waitpid calls
    workRuns,     \* number of times child_fn was entered
    stackLive,    \* child_stack, a local of with_unshared_user_and_mount, exists
    termAt,       \* the statement the parent was at when the child terminated
    mzrDir,       \* paths.rs: an MzrDir
    zoneName,     \* paths.rs: the string given to ZoneName::new
    snapName,     \* paths.rs: the string given to SnapName::new
    zoneDir,      \* paths.rs: ZoneDir::new(mzrDir, zoneName), <<>> before
    snapDir,      \* paths.rs: SnapDir::new(mzrDir, snapName), <<>> before
    zoneInfoFile, \* paths.rs: ZoneInfoFile::new(zoneDir), <<>> before
    changesDir,   \* paths.rs: ChangesDir::new(zoneDir), <<>> before
    ovfsWorkDir   \* paths.rs: OvfsWorkDir::new(zoneDir), <<>> before

vars == <<ppc, cpc, result, server, conn, serverQ, tx1, rx1Live, rx1Q, written,
          recvRes, workRes, childStatus, waitRes, printed, childLine, failures,
          sent, received, waitCalls, workRuns, stackLive, termAt,
          mzrDir, zoneName, snapName, zoneDir, snapDir, zoneInfoFile,
          changesDir, ovfsWorkDir>>

ipcVars == <<server, conn, serverQ, tx1, rx1Live, rx1Q>>
childVars == <<cpc, recvRes, workRes, childStatus, childLine, received, workRuns,
               termAt>>
waitVars == <<waitRes, printed, waitCalls>>
containerVars == <<ppc, cpc, result, server, conn, serverQ, tx1, rx1Live, rx1Q,
                   written, recvRes, workRes, childStatus, waitRes, printed,
                   childLine, failures, sent, received, waitCalls, workRuns,
                   stackLive, termAt>>
pathVars == <<mzrDir, zoneName, snapName, zoneDir, snapDir, zoneInfoFile,
              changesDir, ovfsWorkDir>>

----------------------------------------------------------------------------
\* Values

NoStatus == [kind |-> "none", val |-> 0]
Exited(code) == [kind |-> "Exited", val |-> code]
Signaled(sig) == [kind |-> "Signaled", val |-> sig]
Stopped(sig) == [kind |-> "Stopped", val |-> sig]
WaitErr(errno) == [kind |-> errno, val |-> 0]

WaitErrnos == {"ECHILD", "EINTR", "EINVAL", "EOTHER"}

\* The three pseudo-files map_user_to_root writes, in the order of the code.
MapFiles == <<"uid_map", "setgroups", "gid_map">>

\* Result<T, Error> of one fallible call, before a context is attached.
Res(ok) == IF ok THEN "Ok" ELSE "Err"

----------------------------------------------------------------------------
\* Pure functions of the code

\* wrap_ipc: attaches the interprocess-communication context to an error.
wrap_ipc_swallow(x) == "Ok"
wrap_ipc(x) == IF x = "Ok" THEN "Ok" ELSE "IpcError"

\* wrap_user_mapping: attaches the user-mapping context to an error.
wrap_user_mapping(x) == IF x = "Ok" THEN "Ok" ELSE "MappingError"

\* .context("Error while cloning mzr child ...") on the result of clone.
clone_context(x) == IF x = "Ok" THEN "Ok" ELSE "CloneError"

\* Result::and: `a.and(b)` is b when a is Ok, and a's error otherwise.  Both
\* operands are values: the caller has evaluated them already.
AndIgnoreFirst(a, b) == b
And(a, b) == IF a = "Ok" THEN b ELSE a

\* The match of the clone callback: the exit code of the child.
ExitCode(r) == IF r = "Ok" THEN 0 ELSE 1

\* The order of the statements of with_unshared_user_and_mount (and of
\* map_user_to_root, which it calls) when no statement fails.
Order == [init_ipc |-> "clone",
          clone |-> "open_uid_map",
          open_uid_map |-> "write_uid_map",
          write_uid_map |-> "open_setgroups",
          open_setgroups |-> "write_setgroups",
          write_setgroups |-> "open_gid_map",
          open_gid_map |-> "write_gid_map",
          write_gid_map |-> "accept",
          accept |-> "send",
          send |-> "sleep",
          sleep |-> "waitpid",
          waitpid |-> "done"]

StepAfterNoMap(pc) == IF pc = "clone" THEN "accept" ELSE Order[pc]
StepAfterNoWait(pc) == IF pc = "send" THEN "done" ELSE Order[pc]
StepAfterWaitBeforeSend(pc) ==
    CASE pc = "write_gid_map" -> "sleep"
      [] pc = "waitpid" -> "accept"
      [] pc = "send" -> "done"
      [] OTHER -> Order[pc]
StepAfter(pc) == Order[pc]

\* The `?` operator: go on with the next statement on Ok, return the error
\* otherwise.
QuestionIgnore(r, pc) == StepAfter(pc)
Question(r, pc) == IF r = "Ok" THEN StepAfter(pc) ELSE "done"

\* The file a map_user_to_root statement is about.
FileOfGidFirst(pc) ==
    CASE pc \in {"open_uid_map", "write_uid_map"} -> "uid_map"
      [] pc \in {"open_setgroups", "write_setgroups"} -> "gid_map"
      [] pc \in {"open_gid_map", "write_gid_map"} -> "setgroups"
FileOf(pc) ==
    CASE pc \in {"open_uid_map", "write_uid_map"} -> "uid_map"
      [] pc \in {"open_setgroups", "write_setgroups"} -> "setgroups"
      [] pc \in {"open_gid_map", "write_gid_map"} -> "gid_map"

OpenPcs == {"open_uid_map", "open_setgroups", "open_gid_map"}
WritePcs == {"write_uid_map", "write_setgroups", "write_gid_map"}

\* The match on the result of waitpid: what the function returns.
ClassifyOtherOk(w) ==
    CASE w.kind = "ECHILD" -> "WaitNoChild"
      [] w.kind = "EINTR" -> "WaitInterrupted"
      [] w.kind = "EINVAL" -> "WaitInvalid"
      [] w.kind = "EOTHER" -> "WaitUnexpected"
      [] OTHER -> "Ok"
Classify(w) ==
    CASE w.kind = "ECHILD" -> "WaitNoChild"
      [] w.kind = "EINTR" -> "WaitInterrupted"
      [] w.kind = "EINVAL" -> "WaitInvalid"
      [] w.kind = "EOTHER" -> "WaitUnexpected"
      [] w.kind = "Exited" -> "Ok"
      [] w.kind = "Signaled" -> "Ok"
      [] OTHER -> "ImpossibleStatus"

\* The match on the result of waitpid: the line it prints.
PrintedLine(w) ==
    CASE w.kind = "Exited" /\ w.val = 0 -> <<"exited with success", 0>>
      [] w.kind = "Exited" /\ w.val # 0 -> <<"exited with error code", w.val>>
      [] w.kind = "Signaled" -> <<"killed by signal", w.val>>
      [] OTHER -> <<"none", 0>>

----------------------------------------------------------------------------
ContainerInit ==
    /\ ppc = "init_ipc"
    /\ cpc = "unborn"
    /\ result = "none"
    /\ server = "none"
    /\ conn = "none"
    /\ serverQ = <<>>
    /\ tx1 = "none"
    /\ rx1Live = FALSE
    /\ rx1Q = <<>>
    /\ written = <<>>
    /\ recvRes = "none"
    /\ workRes = "none"
    /\ childStatus = NoStatus
    /\ waitRes = NoStatus
    /\ printed = <<"none", 0>>
    /\ childLine = "none"
    /\ failures = {}
    /\ sent = 0
    /\ received = 0
    /\ waitCalls = 0
    /\ workRuns = 0
    /\ stackLive = TRUE
    /\ termAt = "none"

\* No path has been built.
NoPaths ==
    /\ zoneDir = <<>>
    /\ snapDir = <<>>
    /\ zoneInfoFile = <<>>
    /\ changesDir = <<>>
    /\ ovfsWorkDir = <<>>

Init ==
    /\ ContainerInit
    /\ mzrDir = <<>>
    /\ zoneName = <<>>
    /\ snapName = <<>>
    /\ NoPaths

\* The parent returns r from with_unshared_user_and_mount when next = "done":
\* its locals are dropped, among them parent_server and a tx1 it holds.
Return(next, r) ==
    /\ ppc' = next
    /\ result' = IF next = "done" THEN r ELSE result
    /\ stackLive' = (next # "done")

DropParentEnds(next) ==
    /\ server' = IF next = "done" /\ server = "listening" THEN "dropped" ELSE server
    /\ serverQ' = IF next = "done" THEN <<>> ELSE serverQ
    /\ tx1' = IF next = "done" /\ tx1 \in {"inflight", "parent"} THEN "dropped" ELSE tx1

Fail(ok, step) == failures' = IF ok THEN failures ELSE failures \cup {step}

----------------------------------------------------------------------------
\* Parent: with_unshared_user_and_mount

\* let (parent_server, parent_name) = init_ipc()?;
InitIpc(ok) ==
    /\ ppc = "init_ipc"
    /\ LET r == wrap_ipc(Res(ok))
           next == Question(r, ppc)
       IN /\ Return(next, r)
          /\ server' = IF ok THEN "listening" ELSE "none"
    /\ Fail(ok, "init_ipc")
    /\ UNCHANGED <<conn, serverQ, tx1, rx1Live, rx1Q, written, sent>>
    /\ UNCHANGED childVars
    /\ UNCHANGED waitVars
    /\ UNCHANGED pathVars

\* let child_pid = clone(Box::new(|| ...), child_stack, clone_flags, None).context(..)?;
Clone(ok) ==
    /\ ppc = "clone"
    /\ LET r == clone_context(Res(ok))
           next == Question(r, ppc)
       IN /\ Return(next, r)
          /\ DropParentEnds(next)
    /\ cpc' = IF ok THEN "channel" ELSE cpc
    /\ Fail(ok, "clone")
    /\ UNCHANGED <<conn, rx1Live, rx1Q, written, sent>>
    /\ UNCHANGED <<recvRes, workRes, childStatus, childLine, received, workRuns,
                   termAt>>
    /\ UNCHANGED waitVars
    /\ UNCHANGED pathVars

\* map_user_to_root: OpenOptions::new().write(true).open(path)?
OpenMap(ok) ==
    /\ ppc \in OpenPcs
    /\ LET r == wrap_user_mapping(Res(ok))
           next == Question(r, ppc)
       IN /\ Return(next, r)
          /\ DropParentEnds(next)
    /\ Fail(ok, "open_" \o FileOf(ppc))
    /\ UNCHANGED <<conn, rx1Live, rx1Q, written, sent>>
    /\ UNCHANGED childVars
    /\ UNCHANGED waitVars
    /\ UNCHANGED pathVars

\* map_user_to_root: file.write_all(...)?
WriteMap(ok) ==
    /\ ppc \in WritePcs
    /\ LET r == wrap_user_mapping(Res(ok))
           next == Question(r, ppc)
       IN /\ Return(next, r)
          /\ DropParentEnds(next)
    /\ written' = IF ok THEN Append(written, FileOf(ppc)) ELSE written
    /\ Fail(ok, "write_" \o FileOf(ppc))
    /\ UNCHANGED <<conn, rx1Live, rx1Q, sent>>
    /\ UNCHANGED childVars
    /\ UNCHANGED waitVars
    /\ UNCHANGED pathVars

\* parent_server.accept() has a connection whose first message, the sender
\* tx1, has arrived.
ServerHasSenderAlways == TRUE
ServerHasSender == serverQ # <<>>

\* send_ready: let (_, tx1) = parent_server.accept()?;
\* accept returns once the child has connected and its first message, the
\* sender tx1, has arrived.
Accept(ok) ==
    /\ ppc = "accept"
    /\ ok => ServerHasSender
    /\ LET r == wrap_ipc(Res(ok))
           next == Question(r, ppc)
       IN /\ Return(next, r)
          /\ IF ok
             THEN /\ server' = "consumed"
                  /\ serverQ' = <<>>
                  /\ tx1' = "parent"
             ELSE DropParentEnds(next)
    /\ Fail(ok, "accept")
    /\ UNCHANGED <<conn, rx1Live, rx1Q, written, sent>>
    /\ UNCHANGED childVars
    /\ UNCHANGED waitVars
    /\ UNCHANGED pathVars

\* send_ready: tx1.send(Ready)?;  tx1 is dropped when send_ready returns.
SendReady(ok) ==
    /\ ppc = "send"
    /\ ok => rx1Live
    /\ LET r == wrap_ipc(Res(ok))
           next == Question(r, ppc)
       IN Return(next, r)
    /\ rx1Q' = IF ok /\ tx1 = "parent" THEN Append(rx1Q, "Ready") ELSE rx1Q
    /\ sent' = IF ok THEN sent + 1 ELSE sent
    /\ tx1' = IF tx1 = "parent" THEN "dropped" ELSE tx1
    /\ Fail(ok, "send")
    /\ UNCHANGED <<server, conn, serverQ, rx1Live, written>>
    /\ UNCHANGED childVars
    /\ UNCHANGED waitVars
    /\ UNCHANGED pathVars

\* thread::sleep(time::Duration::from_millis(100));
Sleep ==
    /\ ppc = "sleep"
    /\ ppc' = StepAfter(ppc)
    /\ UNCHANGED <<result, written, failures, sent, stackLive>>
    /\ UNCHANGED ipcVars
    /\ UNCHANGED childVars
    /\ UNCHANGED waitVars
    /\ UNCHANGED pathVars

\* waitpid(child_pid, None) returns a terminal status only when the child has
\* terminated, and then the status of that child.
WaitReturnsNoBlock(w) == TRUE
WaitReturns(w) ==
    w.kind \in {"Exited", "Signaled"} => (cpc = "zombie" /\ w = childStatus)

\* match waitpid(child_pid, None) { ... }  Ok(())
\* waitpid blocks until the child has terminated and then returns its
\* status, reaping it; or it returns an error or another status.
Waitpid(w) ==
    /\ ppc = "waitpid"
    /\ WaitReturns(w)
    /\ ppc' = StepAfter(ppc)
    /\ result' = Classify(w)
    /\ waitRes' = w
    /\ printed' = PrintedLine(w)
    /\ waitCalls' = waitCalls + 1
    /\ cpc' = IF w.kind \in {"Exited", "Signaled"} THEN "reaped" ELSE cpc
    /\ failures' = IF w.kind \in WaitErrnos THEN failures \cup {"waitpid"} ELSE failures
    /\ stackLive' = FALSE
    /\ UNCHANGED <<written, sent>>
    /\ UNCHANGED ipcVars
    /\ UNCHANGED <<recvRes, workRes, childStatus, childLine, received, workRuns,
                   termAt>>
    /\ UNCHANGED pathVars

----------------------------------------------------------------------------
\* Child: the closure handed to clone

\* recv_ready returned r: `recv_ready(&parent_name).and(child_fn())` evaluates
\* its argument, the call child_fn(), next, whatever r is.  The locals of
\* recv_ready (tx0, rx1, and tx1 if not sent) are dropped.
RecvReadyReturns(r) ==
    /\ recvRes' = r
    /\ cpc' = "child_fn"
    /\ conn' = IF conn = "open" THEN "closed" ELSE conn
    /\ rx1Live' = FALSE
    /\ tx1' = IF tx1 = "child" THEN "dropped" ELSE tx1

\* recv_ready: let (tx1, rx1) = ipc::channel()?;
ChildChannel(ok) ==
    /\ cpc = "channel"
    /\ IF ok
       THEN /\ cpc' = "connect"
            /\ tx1' = "child"
            /\ rx1Live' = TRUE
            /\ UNCHANGED <<conn, recvRes>>
       ELSE RecvReadyReturns(wrap_ipc(Res(ok)))
    /\ Fail(ok, "channel")
    /\ UNCHANGED <<ppc, result, stackLive, server, serverQ, rx1Q, written, sent>>
    /\ UNCHANGED <<workRes, childStatus, childLine, received, workRuns, termAt>>
    /\ UNCHANGED waitVars
    /\ UNCHANGED pathVars

\* recv_ready: let tx0 = IpcSender::connect(parent_name.to_string())?;
ChildConnect(ok) ==
    /\ cpc = "connect"
    /\ ok => server = "listening"
    /\ IF ok
       THEN /\ cpc' = "send_tx1"
            /\ conn' = "open"
            /\ UNCHANGED <<tx1, rx1Live, recvRes>>
       ELSE RecvReadyReturns(wrap_ipc(Res(ok)))
    /\ Fail(ok, "connect")
    /\ UNCHANGED <<ppc, result, stackLive, server, serverQ, rx1Q, written, sent>>
    /\ UNCHANGED <<workRes, childStatus, childLine, received, workRuns, termAt>>
    /\ UNCHANGED waitVars
    /\ UNCHANGED pathVars

\* recv_ready: tx0.send(tx1)?;
ChildSendTx1(ok) ==
    /\ cpc = "send_tx1"
    /\ ok => server = "listening"
    /\ IF ok
       THEN /\ cpc' = "recv"
            /\ serverQ' = Append(serverQ, "tx1")
            /\ tx1' = "inflight"
            /\ UNCHANGED <<conn, rx1Live, recvRes>>
       ELSE /\ RecvReadyReturns(wrap_ipc(Res(ok)))
            /\ UNCHANGED serverQ
    /\ Fail(ok, "send_tx1")
    /\ UNCHANGED <<ppc, result, stackLive, server, rx1Q, written, sent>>
    /\ UNCHANGED <<workRes, childStatus, childLine, received, workRuns, termAt>>
    /\ UNCHANGED waitVars
    /\ UNCHANGED pathVars

\* recv_ready: let Ready = rx1.recv()?;  Ok(())
\* recv blocks until a message is there; it fails when the channel is closed
\* or the read fails.
ChildRecv(ok) ==
    /\ cpc = "recv"
    /\ ok => rx1Q # <<>>
    /\ RecvReadyReturns(wrap_ipc(Res(ok)))
    /\ rx1Q' = IF ok THEN Tail(rx1Q) ELSE rx1Q
    /\ received' = IF ok THEN received + 1 ELSE received
    /\ Fail(ok, "recv")
    /\ UNCHANGED <<ppc, result, stackLive, server, serverQ, written, sent>>
    /\ UNCHANGED <<workRes, childStatus, childLine, workRuns, termAt>>
    /\ UNCHANGED waitVars
    /\ UNCHANGED pathVars

\* child_fn() is entered.
ChildFnBegin ==
    /\ cpc = "child_fn"
    /\ cpc' = "in_child_fn"
    /\ workRuns' = workRuns + 1
    /\ UNCHANGED <<ppc, result, stackLive, written, failures, sent>>
    /\ UNCHANGED ipcVars
    /\ UNCHANGED <<recvRes, workRes, childStatus, childLine, received, termAt>>
    /\ UNCHANGED waitVars
    /\ UNCHANGED pathVars

\* What the closure does with the value of child_fn(): it is matched on,
\* child_fn is not called again.
AfterChildFnRetry(ok) == IF ok THEN "match" ELSE "child_fn"
AfterChildFn(ok) == "match"

\* child_fn() returns Ok(()) or Err(err).
ChildFnReturn(ok) ==
    /\ cpc = "in_child_fn"
    /\ cpc' = AfterChildFn(ok)
    /\ workRes' = IF ok THEN "Ok" ELSE "WorkError"
    /\ Fail(ok, "child_fn")
    /\ UNCHANGED <<ppc, result, stackLive, written, sent>>
    /\ UNCHANGED ipcVars
    /\ UNCHANGED <<recvRes, childStatus, childLine, received, workRuns, termAt>>
    /\ UNCHANGED waitVars
    /\ UNCHANGED pathVars

\* The child process is killed by a signal while it runs child_fn (the work
\* aborts, or the process is killed from outside).
ChildKilled(sig) ==
    /\ cpc = "in_child_fn"
    /\ cpc' = "zombie"
    /\ childStatus' = Signaled(sig)
    /\ termAt' = ppc
    /\ UNCHANGED <<ppc, result, stackLive, written, failures, sent>>
    /\ UNCHANGED ipcVars
    /\ UNCHANGED <<recvRes, workRes, childLine, received, workRuns>>
    /\ UNCHANGED waitVars
    /\ UNCHANGED pathVars

\* match recv_ready(..).and(child_fn()) { Ok(()) => 0, Err(err) => { println!(.., err); 1 } }
\* The value is the exit code of the child process.
ChildExit ==
    /\ cpc = "match"
    /\ LET r == And(recvRes, workRes)
       IN /\ childStatus' = Exited(ExitCode(r))
          /\ childLine' = IF r = "Ok" THEN childLine ELSE r
    /\ cpc' = "zombie"
    /\ termAt' = ppc
    /\ UNCHANGED <<ppc, result, stackLive, written, failures, sent>>
    /\ UNCHANGED ipcVars
    /\ UNCHANGED <<recvRes, workRes, received, workRuns>>
    /\ UNCHANGED waitVars
    /\ UNCHANGED pathVars

----------------------------------------------------------------------------
WaitResults ==
    {Exited(c) : c \in {0, 1}} \cup {Signaled(s) : s \in Signals}
        \cup {Stopped(s) : s \in Signals} \cup {WaitErr(e) : e \in WaitErrnos}

Next ==
    \/ \E ok \in BOOLEAN : InitIpc(ok)
    \/ \E ok \in BOOLEAN : Clone(ok)
    \/ \E ok \in BOOLEAN : OpenMap(ok)
    \/ \E ok \in BOOLEAN : WriteMap(ok)
    \/ \E ok \in BOOLEAN : Accept(ok)
    \/ \E ok \in BOOLEAN : SendReady(ok)
    \/ Sleep
    \/ \E w \in WaitResults : Waitpid(w)
    \/ \E ok \in BOOLEAN : ChildChannel(ok)
    \/ \E ok \in BOOLEAN : ChildConnect(ok)
    \/ \E ok \in BOOLEAN : ChildSendTx1(ok)
    \/ \E ok \in BOOLEAN : ChildRecv(ok)
    \/ ChildFnBegin
    \/ \E ok \in BOOLEAN : ChildFnReturn(ok)
    \/ \E sig \in Signals : ChildKilled(sig)
    \/ ChildExit

Spec == Init /\ [][Next]_vars

\* The steps of the parent and of the child in which no call fails, the work
\* closure returns and waitpid returns the status of the terminated child.
\* The two processes are scheduled fairly; whether a call fails or the child
\* is killed is up to the environment.
GoodParentStep ==
    \/ InitIpc(TRUE)
    \/ Clone(TRUE)
    \/ OpenMap(TRUE)
    \/ WriteMap(TRUE)
    \/ Accept(TRUE)
    \/ SendReady(TRUE)
    \/ Sleep
    \/ \E w \in WaitResults : w.kind \in {"Exited", "Signaled"} /\ Waitpid(w)

GoodChildStep ==
    \/ ChildChannel(TRUE)
    \/ ChildConnect(TRUE)
    \/ ChildSendTx1(TRUE)
    \/ ChildRecv(TRUE)
    \/ ChildFnBegin
    \/ \E ok \in BOOLEAN : ChildFnReturn(ok)
    \/ ChildExit

FairSpec == Spec /\ WF_vars(GoodParentStep) /\ WF_vars(GoodChildStep)

----------------------------------------------------------------------------
\* paths.rs: the path types.  A path string is a sequence of atoms, each the
\* separator "/" or a run of other characters.

\* Names are strings of at most MaxNameLen atoms.
MaxNameLen == 2

NameAtoms == {"a", "..", "/"}
Names == UNION {[1..n -> NameAtoms] : n \in 0..MaxNameLen}

\* MzrDir values: `.../PROJECT.mzr`, absolute or relative.
MzrDirs == {<<"/", "p.mzr">>, <<"p.mzr">>}

\* Path::is_absolute
IsAbsolute(p) == p # <<>> /\ p[1] = "/"

\* PathBuf::push: an absolute path replaces the buffer; a relative one is
\* appended, after a separator unless the buffer is empty or ends with one.
Push(buf, p) ==
    IF IsAbsolute(p) THEN p
    ELSE IF buf # <<>> /\ buf[Len(buf)] # "/" THEN buf \o <<"/">> \o p
    ELSE buf \o p

\* ZoneName::new and SnapName::new accept every string.
ZoneNameNew(name) == name
SnapNameNew(name) == name

ZoneDirNew(mzr_dir, zone_name) == Push(Push(mzr_dir, <<"zone">>), zone_name)
SnapDirNew(mzr_dir, snap_name) == Push(Push(mzr_dir, <<"snap">>), snap_name)
ZoneInfoFileNew(zone_dir) == Push(zone_dir, <<"info.json">>)
ChangesDirNew(zone_dir) == Push(zone_dir, <<"changes">>)
OvfsWorkDirNew(zone_dir) == Push(zone_dir, <<"ovfs-work">>)

PathInit ==
    /\ ContainerInit
    /\ mzrDir \in MzrDirs
    /\ zoneName \in {ZoneNameNew(n) : n \in Names}
    /\ snapName \in {SnapNameNew(n) : n \in Names}
    /\ NoPaths

MakeZoneDir ==
    /\ zoneDir = <<>>
    /\ zoneDir' = ZoneDirNew(mzrDir, zoneName)
    /\ UNCHANGED <<mzrDir, zoneName, snapName, snapDir, zoneInfoFile, changesDir,
                   ovfsWorkDir>>
    /\ UNCHANGED containerVars

MakeSnapDir ==
    /\ snapDir = <<>>
    /\ snapDir' = SnapDirNew(mzrDir, snapName)
    /\ UNCHANGED <<mzrDir, zoneName, snapName, zoneDir, zoneInfoFile, changesDir,
                   ovfsWorkDir>>
    /\ UNCHANGED containerVars

MakeZoneInfoFile ==
    /\ zoneDir # <<>>
    /\ zoneInfoFile = <<>>
    /\ zoneInfoFile' = ZoneInfoFileNew(zoneDir)
    /\ UNCHANGED <<mzrDir, zoneName, snapName, zoneDir, snapDir, changesDir,
                   ovfsWorkDir>>
    /\ UNCHANGED containerVars

MakeChangesDir ==
    /\ zoneDir # <<>>
    /\ changesDir = <<>>
    /\ changesDir' = ChangesDirNew(zoneDir)
    /\ UNCHANGED <<mzrDir, zoneName, snapName, zoneDir, snapDir, zoneInfoFile,
                   ovfsWorkDir>>
    /\ UNCHANGED containerVars

MakeOvfsWorkDir ==
    /\ zoneDir # <<>>
    /\ ovfsWorkDir = <<>>
    /\ ovfsWorkDir' = OvfsWorkDirNew(zoneDir)
    /\ UNCHANGED <<mzrDir, zoneName, snapName, zoneDir, snapDir, zoneInfoFile,
                   changesDir>>
    /\ UNCHANGED containerVars

PathNext ==
    \/ MakeZoneDir
    \/ MakeSnapDir
    \/ MakeZoneInfoFile
    \/ MakeChangesDir
    \/ MakeOvfsWorkDir

PathSpec == PathInit /\ [][PathNext]_vars

----------------------------------------------------------------------------
\* Properties

\* The fallible steps of the handshake, by side, and the steps before the
\* child is released.
ParentIpcSteps == {"init_ipc", "accept", "send"}
ChildIpcSteps == {"channel", "connect", "send_tx1", "recv"}
MappingSteps == {"open_uid_map", "write_uid_map", "open_setgroups",
                 "write_setgroups", "open_gid_map", "write_gid_map"}
SetupSteps == {"clone"} \cup MappingSteps \cup ParentIpcSteps \cup ChildIpcSteps

Returned == ppc = "done"
ChildCreated == cpc # "unborn"
Reaped == waitRes.kind \in {"Exited", "Signaled"}

\* C1: when clone, the mapping and the handshake have all succeeded, the
\* three mapping files were written (uid_map, setgroups, gid_map) before the
\* parent sent Ready, and Ready was sent before the work closure was entered.
C1_MappingBeforeReadyBeforeWork ==
    /\ sent > 0 => written = MapFiles
    /\ (workRuns > 0 /\ failures \cap SetupSteps = {}) =>
           (sent = 1 /\ received = 1 /\ written = MapFiles)

C1_Witness ==
    /\ cpc = "in_child_fn"
    /\ failures = {}
    /\ sent = 1
    /\ written = MapFiles

\* C2: the work closure is never entered unless the child has received the
\* Ready message.
C2_WorkOnlyAfterReady == workRuns > 0 => received > 0

\* C3: the function returns success if and only if the reaped child exited
\* with code 0; a nonzero code or a signal death is returned as a failure.
C3_SuccessIffExitZero ==
    (Returned /\ Reaped) => (result = "Ok" <=> waitRes = Exited(0))

\* C4: the exit code of the child is 0 when the work closure returned Ok and
\* 1 when it returned an error.
C4_ExitCodeFromWork ==
    childStatus.kind = "Exited" =>
        childStatus.val = (IF workRes = "Ok" THEN 0 ELSE 1)

\* C5: for a child killed by a signal the function returns an outcome that
\* differs from the one it returns for exit code 0 and from the one it
\* returns for a nonzero exit code.
C5_SignalDistinct ==
    (Returned /\ waitRes.kind = "Signaled") =>
        /\ result # Classify(Exited(0))
        /\ result # Classify(Exited(1))

\* C6 (as stated): whenever the function has returned after clone created a
\* child, the child has been waited on exactly once.
C6_ReapedOnEveryReturn == (Returned /\ ChildCreated) => waitCalls = 1

\* C6 (amended): waitpid is called at most once per child; when the function
\* has returned it was called exactly once, unless the function returned a
\* mapping or handshake error, and then it was not called at all.  The child
\* is reaped exactly when that call returned an exit or a signal death.
C6_AtMostOneReap ==
    /\ waitCalls <= 1
    /\ (Returned /\ ChildCreated) =>
           (waitCalls = 1 <=> result \notin {"MappingError", "IpcError"})
    /\ cpc = "reaped" <=> Reaped

C6_Witness == Returned /\ cpc = "reaped" /\ waitCalls = 1

\* C7: after a mapping error the parent has not sent Ready and has not
\* waited, and the child is still before the end of the rendezvous and has
\* not entered the work closure.
C7_MappingErrorLeavesChildBlocked ==
    result = "MappingError" =>
        /\ sent = 0
        /\ waitCalls = 0
        /\ workRuns = 0
        /\ cpc \in {"channel", "connect", "send_tx1", "recv"}

\* C8 (as stated): when a handshake step has failed on either side (and no
\* other step has, and waitpid returned no unexpected status), the function,
\* once returned, returned an IPC error.
C8_AnyHandshakeFailureIsIpcError ==
    (/\ Returned
     /\ failures \cap (ParentIpcSteps \cup ChildIpcSteps) # {}
     /\ failures \subseteq ParentIpcSteps \cup ChildIpcSteps
     /\ waitRes.kind # "Stopped") => result = "IpcError"

\* C8 (amended): a failing handshake step of the parent (server creation,
\* accept, send) makes the function return an IPC error at once; a failing
\* handshake step of the child makes recv_ready return an IPC error in the
\* child, and a child that exits then exits with code 1 after printing it.
C8_HandshakeFailureBySide ==
    /\ failures \cap ParentIpcSteps # {} => (Returned /\ result = "IpcError")
    /\ failures \cap ChildIpcSteps # {} =>
           /\ recvRes = "IpcError"
           /\ childStatus.kind = "Exited" =>
                  (childStatus.val = 1 /\ childLine = "IpcError")

C8_Witness ==
    /\ "accept" \in failures
    /\ "recv" \in failures
    /\ childStatus = Exited(1)
    /\ result = "IpcError"

\* C9: when clone fails the function returns a clone error; no child code
\* has run, no mapping file is written, no Ready is sent, waitpid is not
\* called, and nothing happens afterwards.
C9_CloneFailureStopsAll ==
    /\ []("clone" \in failures =>
            /\ Returned
            /\ result = "CloneError"
            /\ cpc = "unborn"
            /\ written = <<>>
            /\ sent = 0
            /\ received = 0
            /\ waitCalls = 0
            /\ workRuns = 0)
    /\ [][("clone" \in failures) => UNCHANGED vars]_vars

C9_Witness == "clone" \in failures /\ result = "CloneError"

\* C10: the parent sends Ready at most once; every Ready sent is either
\* still in the channel or was received, so the channel never holds a
\* second one; and in a run that ended in success (the function returned Ok
\* for a child that exited with 0) the child received Ready exactly once.
C10_ReadyOnce ==
    /\ sent <= 1
    /\ received + Len(rx1Q) = sent
    /\ received > 0 => rx1Q = <<>>
    /\ (Returned /\ result = "Ok" /\ waitRes = Exited(0)) => received = 1

C10_Witness ==
    /\ Returned
    /\ result = "Ok"
    /\ waitRes = Exited(0)
    /\ received = 1
    /\ rx1Q = <<>>

IsPrefix(s, t) == Len(s) <= Len(t) /\ \A i \in 1..Len(s) : s[i] = t[i]

\* The files map_user_to_root has written when it reaches file f.
FilesBefore(f) ==
    CASE f = "uid_map" -> <<>>
      [] f = "setgroups" -> <<"uid_map">>
      [] f = "gid_map" -> <<"uid_map", "setgroups">>

\* C11: the mapping files are written in the order uid_map, setgroups,
\* gid_map, each at most once (so gid_map only after setgroups), and a failed
\* open or write of a file ends the sequence: the function has returned a
\* mapping error and exactly the files before that one are written.
C11_MappingOrder ==
    /\ IsPrefix(written, MapFiles)
    /\ \A f \in {"uid_map", "setgroups", "gid_map"} :
           failures \cap {"open_" \o f, "write_" \o f} # {} =>
               /\ written = FilesBefore(f)
               /\ Returned
               /\ result = "MappingError"

C11_Witness == written = MapFiles /\ ppc = "accept"

\* C12: the server exists before the child does; accept has completed only
\* when the child has dialed and handed over tx1; Ready is sent only after
\* accept completed, over the sender it returned; the child has received
\* only after that send.
C12_HandshakeOrder ==
    /\ ChildCreated => server # "none"
    /\ server = "consumed" =>
           /\ cpc \notin {"unborn", "channel", "connect", "send_tx1"}
           /\ conn # "none"
           /\ failures \cap {"channel", "connect", "send_tx1"} = {}
    /\ tx1 = "parent" => (server = "consumed" /\ ppc = "send")
    /\ sent > 0 => (server = "consumed" /\ tx1 = "dropped")
    /\ received > 0 => sent > 0

C12_Witness == received = 1 /\ sent = 1 /\ server = "consumed"

\* C13: a waitpid result that is neither a normal exit nor a signal death
\* makes the function return an error: each errno its wait failure, any
\* other status the fatal internal error; never success.
C13_WaitFailuresReturned ==
    waitCalls > 0 =>
        /\ Returned
        /\ waitRes.kind = "ECHILD" => result = "WaitNoChild"
        /\ waitRes.kind = "EINTR" => result = "WaitInterrupted"
        /\ waitRes.kind = "EINVAL" => result = "WaitInvalid"
        /\ waitRes.kind = "EOTHER" => result = "WaitUnexpected"
        /\ waitRes.kind = "Stopped" => result = "ImpossibleStatus"
        /\ waitRes.kind \notin {"Exited", "Signaled"} => result # "Ok"

C13_Witness == waitRes.kind = "Stopped" /\ result = "ImpossibleStatus"

\* What only the child changes.
childAfterExit == <<recvRes, workRes, childStatus, childLine, received, workRuns,
                    conn, rx1Live, termAt>>

\* C14: the work closure is entered at most once, by a step of the child
\* and never by a step of the parent; the statements after clone (mapping,
\* send, wait) are steps of the parent only; and a child that has terminated
\* does nothing more.
C14_WorkOnceInChild ==
    /\ [](workRuns <= 1)
    /\ [][workRuns' # workRuns =>
            (cpc = "child_fn" /\ cpc' = "in_child_fn" /\ ppc' = ppc)]_vars
    /\ [][(written' # written \/ sent' # sent \/ waitCalls' # waitCalls) =>
            (ppc' # ppc /\ workRuns' = workRuns)]_vars
    /\ [][(cpc = "zombie" \/ cpc = "reaped") =>
            (cpc' \in {"zombie", "reaped"} /\ UNCHANGED childAfterExit)]_vars

C14_Witness == cpc = "reaped" /\ workRuns = 1 /\ childStatus.kind = "Exited"

C16_ErrorsAttributed ==
    /\ "clone" \in failures => result = "CloneError"
    /\ failures \cap MappingSteps # {} => result = "MappingError"
    /\ failures \cap ParentIpcSteps # {} => result = "IpcError"
    /\ "waitpid" \in failures =>
           result \in {"WaitNoChild", "WaitInterrupted", "WaitInvalid", "WaitUnexpected"}
    /\ (childStatus.kind = "Exited" /\ workRes = "WorkError") => childLine = "WorkError"

\* C17: under fair scheduling of parent and child, unless a step of clone,
\* mapping, handshake or wait fails or waitpid returns an unexpected status,
\* the function eventually returns with the child reaped.
C17_GoodPathTerminates ==
    <>(\/ failures \cap (SetupSteps \cup {"waitpid"}) # {}
       \/ waitRes.kind = "Stopped"
       \/ (Returned /\ cpc = "reaped"))

C17_Witness ==
    /\ Returned
    /\ cpc = "reaped"
    /\ failures = {}
    /\ received = 1
    /\ childStatus = Exited(0)

WithSep(p) == IF p # <<>> /\ p[Len(p)] # "/" THEN p \o <<"/">> ELSE p

\* C19: the zone directory is <mzr_dir>/zone/<name> and the snapshot
\* directory <mzr_dir>/snap/<name>, both below the mzr directory; info.json,
\* changes and ovfs-work are direct children of the zone directory.
C19_PathsWithinMzrDir ==
    /\ zoneDir # <<>> =>
           /\ zoneDir = mzrDir \o <<"/", "zone", "/">> \o zoneName
           /\ IsPrefix(mzrDir \o <<"/">>, zoneDir)
    /\ snapDir # <<>> =>
           /\ snapDir = mzrDir \o <<"/", "snap", "/">> \o snapName
           /\ IsPrefix(mzrDir \o <<"/">>, snapDir)
    /\ zoneInfoFile # <<>> => zoneInfoFile = WithSep(zoneDir) \o <<"info.json">>
    /\ changesDir # <<>> => changesDir = WithSep(zoneDir) \o <<"changes">>
    /\ ovfsWorkDir # <<>> => ovfsWorkDir = WithSep(zoneDir) \o <<"ovfs-work">>

====
